---- MODULE Spec2Model ----
(***************************************************************************)
(* A model of the frumpus browser pipeline (src/src/browser.py):           *)
(* HTMLParser (character scan, tag handling, finish), DocumentLayout /     *)
(* BlockLayout (block and inline layout, line flush), paint_tree and       *)
(* Browser.load / draw / scrolldown.                                       *)
(*                                                                         *)
(* Strings of the program are sequences of one-character strings, so that  *)
(* the scan, str.split, str.isspace, str.casefold and str.startswith are   *)
(* modelled by what they do.  Tag names and attribute keys/values are      *)
(* stored as TLA+ strings (the concatenation of their characters).         *)
(*                                                                         *)
(* Horizontal coordinates are pixels.  Vertical coordinates are kept in    *)
(* quarter pixels, so that the program's 1.25 * ascent is the exact        *)
(* integer 5 * ascent and a pixel count n is 4 * n.                        *)
(***************************************************************************)
EXTENDS Integers, Sequences, FiniteSets, TLC

VARIABLES
    body,             \* HTMLParser.body: the markup, a sequence of characters
    pos,              \* index of the character the scan of parse() reads next
    text,             \* parse(): the pending buffer
    in_tag,           \* parse(): the automaton state
    nodes,            \* the heap of DOM nodes (Text / Element), by identity
    unfinished_tags,  \* HTMLParser.unfinished_tags: node identities
    pc,               \* position of the program
    root_node,        \* Browser.root_node (0: not set)
    document,         \* Browser.document: the box tree
    display_list,     \* Browser.display_list
    scroll,           \* Browser.scroll, in pixels
    canvas,           \* items on the tkinter canvas, in creation order
    FONT_CACHE,       \* the keys of the global FONT_CACHE
    loads,            \* history: calls of Browser.load so far
    scrolls,          \* history: calls of Browser.scrolldown so far
    prev_display_list \* history: the display list the previous load built

vars == <<body, pos, text, in_tag, nodes, unfinished_tags, pc, root_node,
          document, display_list, scroll, canvas, FONT_CACHE, loads, scrolls,
          prev_display_list>>

(***************************************************************************)
(* Program constants.                                                      *)
(***************************************************************************)
WIDTH == 800
HEIGHT == 600
SCROLL_STEP == 100
HSTEP == 13
VSTEP == 18

BLOCK_ELEMENTS ==
    {"html", "body", "article", "section", "nav", "aside", "h1", "h2", "h3",
     "h4", "h5", "h6", "hgroup", "header", "footer", "address", "p", "hr",
     "pre", "blockquote", "ol", "ul", "menu", "li", "dl", "dt", "dd",
     "figure", "figcaption", "main", "div", "table", "form", "fieldset",
     "legend", "details", "summary"}

SELF_CLOSING_TAGS ==
    {"area", "base", "br", "col", "embed", "hr", "img", "input", "link",
     "meta", "param", "source", "track", "wbr"}

(***************************************************************************)
(* Bounds of the model.                                                    *)
(***************************************************************************)
MaxTok == 5       \* markup built from at most MaxTok pieces
MaxRaw == 3       \* every markup of at most MaxRaw characters
MaxScrolls == 2   \* scroll events
MaxLoads == 2     \* loads of the page, where the page can be loaded again
MaxReloadTok == 3 \* pieces of a markup that is loaded again
TallLines == 34   \* lines of the page that is taller than the viewport

None == 0         \* Python's None, for a parent reference

(***************************************************************************)
(* Strings.                                                                *)
(***************************************************************************)
RECURSIVE Str(_)
Str(s) == IF s = <<>> THEN "" ELSE Head(s) \o Str(Tail(s))

\* The whitespace characters of the modelled alphabet (str.isspace, str.split).
Whitespace == {" ", "\n"}

\* str.isspace(): every character is whitespace and there is at least one.
IsSpace(s) == Len(s) > 0 /\ \A i \in 1..Len(s) : s[i] \in Whitespace

\* str.casefold() on the modelled alphabet: upper-case letters fold to lower.
FoldChar(c) ==
    CASE c = "P" -> "p"
      [] c = "B" -> "b"
      [] c = "K" -> "k"
      [] OTHER -> c

Casefold(s) == [i \in 1..Len(s) |-> FoldChar(s[i])]

\* str.split(): the maximal runs of non-whitespace characters, in order.
RECURSIVE SplitFrom(_, _, _)
SplitFrom(s, i, cur) ==
    IF i > Len(s)
    THEN IF cur = <<>> THEN <<>> ELSE <<cur>>
    ELSE IF s[i] \in Whitespace
         THEN IF cur = <<>>
              THEN SplitFrom(s, i + 1, <<>>)
              ELSE <<cur>> \o SplitFrom(s, i + 1, <<>>)
         ELSE SplitFrom(s, i + 1, Append(cur, s[i]))

Split(s) == SplitFrom(s, 1, <<>>)

\* The concatenation of a sequence of sequences.
RECURSIVE Concat(_)
Concat(ss) == IF ss = <<>> THEN <<>> ELSE Head(ss) \o Concat(Tail(ss))

\* str.startswith(c) for a one-character prefix.
StartsWith(s, c) == Len(s) > 0 /\ s[1] = c

\* Index of the first occurrence of c in s, 0 when there is none.
IndexOf(s, c) ==
    IF \E i \in 1..Len(s) : s[i] = c
    THEN CHOOSE i \in 1..Len(s) : s[i] = c /\ \A j \in 1..(i - 1) : s[j] # c
    ELSE 0

(***************************************************************************)
(* DOM nodes.                                                              *)
(***************************************************************************)
Text(t, parent) ==
    [kind |-> "Text", tag |-> "", text |-> t, attributes |-> <<>>,
     children |-> <<>>, parent |-> parent]

Element(tag, attributes, parent) ==
    [kind |-> "Element", tag |-> tag, text |-> <<>>, attributes |-> attributes,
     children |-> <<>>, parent |-> parent]

\* The node put in front of the parent's children instead of behind them.
PrependChild(h, parent, node) ==
    [h EXCEPT ![parent].children = <<node>> \o @]

\* parent.children.append(node), on the heap h.
AppendChild(h, parent, node) ==
    [h EXCEPT ![parent].children = Append(@, node)]

(***************************************************************************)
(* HTMLParser.  A parser state is [nodes, unfinished_tags, raised]; raised *)
(* is TRUE when the call ended in an exception (IndexError).               *)
(***************************************************************************)
PState(h, st, r) == [nodes |-> h, unfinished_tags |-> st, raised |-> r]

Top(st) == st[Len(st)]
Pop(st) == SubSeq(st, 1, Len(st) - 1)

AddText(h, st, t) ==
    IF IsSpace(t)
    THEN PState(h, st, FALSE)
    ELSE IF st = <<>>
         THEN PState(h, st, TRUE)           \* unfinished_tags[-1]: IndexError
         ELSE LET parent == Top(st)
                  node == Len(h) + 1
              IN PState(AppendChild(Append(h, Text(t, parent)), parent, node),
                        st, FALSE)

\* One attribute token of a tag: the (key, value) pair it adds.
AttrPair(attrpair) ==
    LET eq == IndexOf(attrpair, "=")
    IN IF eq > 0
       THEN LET key == SubSeq(attrpair, 1, eq - 1)
                value == SubSeq(attrpair, eq + 1, Len(attrpair))
                unq == IF Len(value) > 2 /\ value[1] \in {"'", "\""}
                       THEN SubSeq(value, 2, Len(value) - 1)
                       ELSE value
            IN <<Str(Casefold(key)), Str(unq)>>
       ELSE <<Str(Casefold(attrpair)), "">>

\* The dict built from the attribute tokens: a later key overwrites.
RECURSIVE AttrDict(_, _)
AttrDict(parts, acc) ==
    IF parts = <<>>
    THEN acc
    ELSE LET kv == AttrPair(Head(parts))
         IN AttrDict(Tail(parts),
                     [k \in (DOMAIN acc) \cup {kv[1]} |->
                         IF k = kv[1] THEN kv[2] ELSE acc[k]])

GetAttributes(t) ==
    LET parts == Split(t)
    IN IF parts = <<>>
       THEN [raised |-> TRUE, tag |-> <<>>, attributes |-> <<>>]  \* parts[0]
       ELSE [raised |-> FALSE, tag |-> Casefold(parts[1]),
             attributes |-> AttrDict(Tail(parts), <<>>)]

\* add_tag with the void branch pushing the element like an opening tag.
AddVoidPushed(h, st, tag, attributes) ==
    IF st = <<>>
    THEN PState(h, st, TRUE)
    ELSE LET parent == Top(st)
             node == Len(h) + 1
         IN PState(AppendChild(Append(h, Element(tag, attributes, parent)),
                               parent, node),
                   Append(st, node), FALSE)

\* The branch of add_tag for a tag in SELF_CLOSING_TAGS.
AddVoid(h, st, tag, attributes) ==
    IF st = <<>>
    THEN PState(h, st, TRUE)                \* unfinished_tags[-1]: IndexError
    ELSE LET parent == Top(st)
             node == Len(h) + 1
         IN PState(AppendChild(Append(h, Element(tag, attributes, parent)),
                               parent, node),
                   st, FALSE)

\* The closing branch appending the closed element to the bottom of the stack.
AddCloseToFirst(h, st) ==
    IF Len(st) = 1
    THEN PState(h, st, FALSE)
    ELSE IF st = <<>>
         THEN PState(h, st, TRUE)
         ELSE PState(AppendChild(h, st[1], Top(st)), Pop(st), FALSE)

\* The branch of add_tag for a closing tag.
AddClose(h, st) ==
    IF Len(st) = 1
    THEN PState(h, st, FALSE)
    ELSE IF st = <<>>
         THEN PState(h, st, TRUE)           \* pop from empty list: IndexError
         ELSE LET node == Top(st)
                  parent == Top(Pop(st))
              IN PState(AppendChild(h, parent, node), Pop(st), FALSE)

\* The branch of add_tag for an opening tag.
AddOpen(h, st, tag, attributes) ==
    LET parent == IF st # <<>> THEN Top(st) ELSE None
    IN PState(Append(h, Element(tag, attributes, parent)),
              Append(st, Len(h) + 1), FALSE)

AddTag(h, st, t) ==
    LET ga == GetAttributes(t)
    IN IF ga.raised
       THEN PState(h, st, TRUE)
       ELSE IF StartsWith(ga.tag, "!")
            THEN PState(h, st, FALSE)
            ELSE IF StartsWith(ga.tag, "/")
                 THEN AddClose(h, st)
                 ELSE IF Str(ga.tag) \in SELF_CLOSING_TAGS
                      THEN AddVoid(h, st, Str(ga.tag), ga.attributes)
                      ELSE AddOpen(h, st, Str(ga.tag), ga.attributes)

\* The loop of finish(): close every element still open but the first.
RECURSIVE FinishLoop(_, _)
FinishLoop(h, st) ==
    IF Len(st) > 1
    THEN FinishLoop(AppendChild(h, Top(Pop(st)), Top(st)), Pop(st))
    ELSE PState(h, st, FALSE)

(***************************************************************************)
(* The type metrics (tkinter.font.Font): a font is its cache key.  The     *)
(* metrics are a deterministic function of the key: every character        *)
(* advances by seven times the size (eight when bold), the ascent is the   *)
(* size and the descent a quarter of it, all in whole pixels.              *)
(***************************************************************************)
get_font(size, weight, style) == [size |-> size, weight |-> weight, style |-> style]

CharAdvance(font) ==
    font.size * (IF font.weight = "bold" THEN 8 ELSE 7)

\* font.measure(word), in pixels.
Measure(font, word) == Len(word) * CharAdvance(font)

\* font.metrics("ascent") and font.metrics("descent"), in pixels.
Ascent(font) == font.size
Descent(font) == font.size \div 4

Max(S) == CHOOSE m \in S : \A n \in S : n <= m

RECURSIVE Sum(_)
Sum(s) == IF s = <<>> THEN 0 ELSE Head(s) + Sum(Tail(s))

(***************************************************************************)
(* BlockLayout.  A box is the object's fields; flushes, placed, styled and *)
(* mode are history fields: one entry per flush of a non-empty line, one   *)
(* per call of layout_word and one per element recurse_layout walked,      *)
(* recording what the call saw, and the mode layout() resolved.            *)
(***************************************************************************)
BlockLayoutInit(node) ==
    [kind |-> "BlockLayout", node |-> node, children |-> <<>>,
     x |-> None, y |-> None, width |-> None, height |-> None,
     display_list |-> <<>>,
     cursor_x |-> HSTEP, cursor_y |-> 4 * VSTEP,
     weight |-> "normal", style |-> "roman", size |-> 12,
     line |-> <<>>,
     flushes |-> <<>>, placed |-> <<>>, styled |-> <<>>, mode |-> "unset"]

\* flush without the baseline pass: every word at the top of the line.
FlushTopAligned(self) ==
    IF self.line = <<>>
    THEN self
    ELSE LET n == Len(self.line)
             max_ascent == Max({Ascent(self.line[i].font) : i \in 1..n})
             baseline == self.cursor_y + 5 * max_ascent
             max_descent == Max({Descent(self.line[i].font) : i \in 1..n})
             emitted ==
                 [i \in 1..n |->
                     [x |-> self.x + self.line[i].x,
                      y |-> self.y + baseline - 4 * max_ascent,
                      word |-> self.line[i].word,
                      font |-> self.line[i].font]]
         IN [self EXCEPT
                !.display_list = @ \o emitted,
                !.cursor_y = baseline + 5 * max_descent,
                !.cursor_x = 0,
                !.line = <<>>,
                !.flushes = Append(@, [cursor_y |-> self.cursor_y,
                                       first |-> Len(self.display_list) + 1,
                                       count |-> n])]

\* BlockLayout.flush: the second pass over the pending line.
Flush(self) ==
    IF self.line = <<>>
    THEN self
    ELSE LET n == Len(self.line)
             max_ascent == Max({Ascent(self.line[i].font) : i \in 1..n})
             baseline == self.cursor_y + 5 * max_ascent
             max_descent == Max({Descent(self.line[i].font) : i \in 1..n})
             emitted ==
                 [i \in 1..n |->
                     [x |-> self.x + self.line[i].x,
                      y |-> self.y + baseline - 4 * Ascent(self.line[i].font),
                      word |-> self.line[i].word,
                      font |-> self.line[i].font]]
         IN [self EXCEPT
                !.display_list = @ \o emitted,
                !.cursor_y = baseline + 5 * max_descent,
                !.cursor_x = 0,
                !.line = <<>>,
                !.flushes = Append(@, [cursor_y |-> self.cursor_y,
                                       first |-> Len(self.display_list) + 1,
                                       count |-> n])]

\* layout_word with the wrap test counting the space after the word.
LayoutWordSpaceCounted(self, word) ==
    LET font == get_font(self.size, self.weight, self.style)
        w == Measure(font, word)
        s1 == IF self.cursor_x + w + Measure(font, <<" ">>) > self.width
              THEN Flush(self)
              ELSE self
    IN [s1 EXCEPT
           !.line = Append(@, [x |-> s1.cursor_x, word |-> word, font |-> font]),
           !.cursor_x = s1.cursor_x + w + Measure(font, <<" ">>),
           !.placed = Append(@, [word |-> word, font |-> font, w |-> w,
                                 cursor_x |-> self.cursor_x,
                                 x |-> s1.cursor_x])]

\* BlockLayout.layout_word.
LayoutWord(self, word) ==
    LET font == get_font(self.size, self.weight, self.style)
        w == Measure(font, word)
        s1 == IF self.cursor_x + w > self.width THEN Flush(self) ELSE self
    IN [s1 EXCEPT
           !.line = Append(@, [x |-> s1.cursor_x, word |-> word, font |-> font]),
           !.cursor_x = s1.cursor_x + w + Measure(font, <<" ">>),
           !.placed = Append(@, [word |-> word, font |-> font, w |-> w,
                                 cursor_x |-> self.cursor_x,
                                 x |-> s1.cursor_x])]

\* BlockLayout.open_tag.
OpenTag(self, tag) ==
    CASE tag = "i" -> [self EXCEPT !.style = "italic"]
      [] tag = "b" -> [self EXCEPT !.weight = "bold"]
      [] tag = "small" -> [self EXCEPT !.size = @ - 2]
      [] tag = "big" -> [self EXCEPT !.size = @ + 4]
      [] tag = "br" -> Flush(self)
      [] OTHER -> self

\* BlockLayout.close_tag.
CloseTag(self, tag) ==
    CASE tag = "i" -> [self EXCEPT !.style = "roman"]
      [] tag = "b" -> [self EXCEPT !.weight = "normal"]
      [] tag = "small" -> [self EXCEPT !.size = @ + 2]
      [] tag = "big" -> [self EXCEPT !.size = @ - 4]
      [] tag = "p" -> [Flush(self) EXCEPT !.cursor_y = @ + 4 * VSTEP]
      [] OTHER -> self

\* The style context of a box: the fields open_tag and close_tag change.
StyleOf(self) ==
    [weight |-> self.weight, style |-> self.style, size |-> self.size]

RECURSIVE LayoutWords(_, _)
LayoutWords(self, words) ==
    IF words = <<>>
    THEN self
    ELSE LayoutWords(LayoutWord(self, Head(words)), Tail(words))

\* BlockLayout.recurse_layout, over the DOM heap h.
RECURSIVE RecurseLayout(_, _, _)
RECURSIVE RecurseChildren(_, _, _)
RecurseLayout(h, self, node) ==
    IF h[node].kind = "Text"
    THEN LayoutWords(self, Split(h[node].text))
    ELSE LET closed == CloseTag(RecurseChildren(h, OpenTag(self, h[node].tag),
                                                h[node].children),
                                h[node].tag)
         IN [closed EXCEPT
                !.styled = Append(@, [node |-> node,
                                      before |-> StyleOf(self),
                                      after |-> StyleOf(closed)])]

\* The loop over node.children; self is always a BlockLayout, and reading its
\* kind makes the fold evaluate child by child, as the loop runs.
RecurseChildren(h, self, kids) ==
    IF kids = <<>> \/ self.kind # "BlockLayout"
    THEN self
    ELSE RecurseChildren(h, RecurseLayout(h, self, Head(kids)), Tail(kids))

\* get_layout_mode with inline as the mode of an element without children.
GetLayoutModeChildlessInline(h, node) ==
    IF h[node].kind = "Text"
    THEN "inline"
    ELSE IF \E i \in 1..Len(h[node].children) :
                /\ h[h[node].children[i]].kind = "Element"
                /\ h[h[node].children[i]].tag \in BLOCK_ELEMENTS
         THEN "block"
         ELSE "inline"

\* BlockLayout.get_layout_mode.
GetLayoutMode(h, node) ==
    IF h[node].kind = "Text"
    THEN "inline"
    ELSE IF \E i \in 1..Len(h[node].children) :
                /\ h[h[node].children[i]].kind = "Element"
                /\ h[h[node].children[i]].tag \in BLOCK_ELEMENTS
         THEN "block"
         ELSE IF h[node].children # <<>>
              THEN "inline"
              ELSE "block"

\* The inline branch of BlockLayout.layout.
LayoutInline(h, self) ==
    LET s0 == [self EXCEPT !.cursor_x = 0, !.cursor_y = 0,
                           !.weight = "normal", !.style = "roman",
                           !.size = 12, !.line = <<>>]
        s1 == Flush(RecurseLayout(h, s0, self.node))
    IN [s1 EXCEPT !.height = s1.cursor_y]

\* The height of a block-mode box taken from its last child only.
BlockHeightLastChild(children) ==
    IF children = <<>> THEN 0 ELSE children[Len(children)].height

\* The height of a block-mode box from its laid-out children.
BlockHeight(children) ==
    Sum([i \in 1..Len(children) |-> children[i].height])

\* BlockLayout.layout, for the box of `node` under a parent at (px, py) of
\* width pw, with previous sibling box `previous` (NoBox: None).
NoBox == [kind |-> "none"]

\* A box placed at its parent's y whatever its previous sibling.
BoxYOfParent(py, previous) == py

\* The y of a box: below its previous sibling, or at its parent's y.
BoxY(py, previous) ==
    IF previous # NoBox THEN previous.y + previous.height ELSE py

RECURSIVE Layout(_, _, _, _, _, _)
RECURSIVE LayoutChildBoxes(_, _, _, _)
Layout(h, node, px, py, pw, previous) ==
    LET mode == GetLayoutMode(h, node)
        s0 == [BlockLayoutInit(node) EXCEPT
                  !.x = px,
                  !.width = pw,
                  !.y = BoxY(py, previous),
                  !.mode = mode]
    IN IF mode = "block"
       THEN LET kids == LayoutChildBoxes(h, s0, h[node].children, <<>>)
            IN [s0 EXCEPT
                   !.children = kids,
                   !.display_list =
                       Concat([i \in 1..Len(kids) |-> kids[i].display_list]),
                   !.height = BlockHeight(kids)]
       ELSE LayoutInline(h, s0)

\* The child boxes of a block-mode box, laid out in order; done holds the
\* boxes already laid out, the last of them the previous sibling.
LayoutChildBoxes(h, self, kids, done) ==
    IF kids = <<>>
    THEN done
    ELSE LayoutChildBoxes(h, self, Tail(kids),
             Append(done,
                    Layout(h, Head(kids), self.x, self.y, self.width,
                           IF done = <<>> THEN NoBox ELSE done[Len(done)])))

\* DocumentLayout.__init__ and DocumentLayout.layout.
DocumentLayout(h, node) ==
    LET x == HSTEP
        y == 4 * VSTEP
        width == WIDTH - 2 * HSTEP
        child == Layout(h, node, x, y, width, NoBox)
    IN [kind |-> "DocumentLayout", node |-> node, children |-> <<child>>,
        x |-> x, y |-> y, width |-> width, height |-> child.height,
        display_list |-> child.display_list]

\* The cache keys get_font was called with during a layout: one call per
\* call of layout_word.
RECURSIVE FontsUsed(_)
FontsUsed(box) ==
    (IF box.kind = "BlockLayout"
     THEN {box.placed[i].font : i \in 1..Len(box.placed)}
     ELSE {})
    \cup UNION {FontsUsed(box.children[i]) : i \in 1..Len(box.children)}

\* DocumentLayout.paint and BlockLayout.paint.
Paint(box) ==
    IF box.kind = "DocumentLayout" THEN <<>> ELSE box.display_list

\* paint_tree: what it appends to the display list.
RECURSIVE PaintTree(_)
PaintTree(box) ==
    Paint(box)
    \o Concat([i \in 1..Len(box.children) |-> PaintTree(box.children[i])])

\* draw without the test against the viewport: every fragment is drawn.
DrawAll(dl, scr) ==
    [i \in 1..Len(dl) |->
        [x |-> dl[i].x, y |-> dl[i].y - 4 * scr, text |-> dl[i].word,
         font |-> dl[i].font]]

\* Browser.draw: the create_text calls, in order.
RECURSIVE Draw(_, _)
Draw(dl, scr) ==
    IF dl = <<>>
    THEN <<>>
    ELSE LET f == Head(dl)
         IN IF f.y > 4 * (scr + HEIGHT) \/ f.y + 4 * VSTEP < 4 * scr
            THEN Draw(Tail(dl), scr)
            ELSE <<[x |-> f.x, y |-> f.y - 4 * scr, text |-> f.word,
                    font |-> f.font]>> \o Draw(Tail(dl), scr)

(***************************************************************************)
(* The markup the browser is loaded with.                                  *)
(***************************************************************************)
SeqsUpTo(S, n) == UNION {[1..k -> S] : k \in 0..n}

Pieces ==
    { <<"<", "p", ">">>,
      <<"<", "/", "p", ">">>,
      <<"<", "b", "i", "g", ">">>,
      <<"<", "/", "b", "i", "g", ">">>,
      <<"<", "b", "r", ">">>,
      <<"a", " ", "b", "b">> }

RawAlphabet == {"<", ">", "/", " ", "p", "!"}

BoldScenario ==
    <<"<", "b", ">", "H", "i", "<", "/", "b", ">", " ", "t", "h", "e", "r", "e">>

ParagraphsScenario ==
    <<"<", "p", ">", "O", "n", "e", "<", "/", "p", ">",
      "<", "p", ">", "T", "w", "o", "<", "/", "p", ">">>

\* <html><body><p>One</p><p>T <big>w</big><br>o</p><ul></ul></body></html>
PageScenario ==
    <<"<", "h", "t", "m", "l", ">", "<", "b", "o", "d", "y", ">", "<",
      "p", ">", "O", "n", "e", "<", "/", "p", ">", "<", "p", ">", "T",
      " ", "<", "b", "i", "g", ">", "w", "<", "/", "b", "i", "g", ">",
      "<", "b", "r", ">", "o", "<", "/", "p", ">", "<", "u", "l", ">",
      "<", "/", "u", "l", ">", "<", "/", "b", "o", "d", "y", ">", "<",
      "/", "h", "t", "m", "l", ">">>

\* <ul><li>x</li></ul>
ListScenario ==
    <<"<", "u", "l", ">", "<", "l", "i", ">", "x", "<", "/", "l", "i", ">",
      "<", "/", "u", "l", ">">>

\* <p><b>a<b>b</b>c</b>d
NestedBoldScenario ==
    <<"<", "p", ">", "<", "b", ">", "a", "<", "b", ">", "b", "<", "/",
      "b", ">", "c", "<", "/", "b", ">", "d">>

\* <p a="" b="xy c='y' d=z e K=k>t
AttrScenario ==
    <<"<", "p", " ", "a", "=", "\"", "\"", " ", "b", "=", "\"", "x",
      "y", " ", "c", "=", "'", "y", "'", " ", "d", "=", "z", " ", "e",
      " ", "K", "=", "k", ">", "t">>

\* <p> followed by TallLines lines x<br>: a page taller than the viewport.
TallScenario ==
    <<"<", "p", ">">>
    \o Concat([i \in 1..TallLines |-> <<"x", "<", "b", "r", ">">>])

Scenarios ==
    { BoldScenario,
      ParagraphsScenario,
      PageScenario,
      ListScenario,
      NestedBoldScenario,
      AttrScenario,
      TallScenario,
      <<"<", "P", " ", "K", "=", "'", "v", "'", ">", "a", "<", "h", "r", ">",
        "<", "B", ">", "b", "\n", "<", "/", "B", ">">> }

Bodies ==
    Scenarios
    \cup {Concat(ps) : ps \in SeqsUpTo(Pieces, MaxTok)}
    \cup SeqsUpTo(RawAlphabet, MaxRaw)

NoDocument == [kind |-> "none"]

Init ==
    /\ body \in Bodies
    /\ pos = 1
    /\ text = <<>>
    /\ in_tag = FALSE
    /\ nodes = <<>>
    /\ unfinished_tags = <<>>
    /\ pc = "parse"
    /\ root_node = None
    /\ document = NoDocument
    /\ display_list = <<>>
    /\ scroll = 0
    /\ canvas = <<>>
    /\ FONT_CACHE = {}
    /\ loads = 1
    /\ scrolls = 0
    /\ prev_display_list = <<>>

(***************************************************************************)
(* HTMLParser.parse: one action per iteration of the scan, by the branch   *)
(* the character takes.  An exception ends the program (pc = "raised").    *)
(***************************************************************************)
ParserReturns(p, nextpc) ==
    /\ nodes' = p.nodes
    /\ unfinished_tags' = p.unfinished_tags
    /\ pc' = IF p.raised THEN "raised" ELSE nextpc

ParseLt ==
    /\ pc = "parse"
    /\ pos <= Len(body)
    /\ body[pos] = "<"
    /\ in_tag' = TRUE
    /\ ParserReturns(IF text # <<>>
                     THEN AddText(nodes, unfinished_tags, text)
                     ELSE PState(nodes, unfinished_tags, FALSE), "parse")
    /\ text' = <<>>
    /\ pos' = pos + 1
    /\ UNCHANGED <<body, root_node, document, display_list, scroll, canvas, FONT_CACHE, loads,
                   scrolls, prev_display_list>>

ParseGt ==
    /\ pc = "parse"
    /\ pos <= Len(body)
    /\ body[pos] = ">"
    /\ in_tag' = FALSE
    /\ ParserReturns(AddTag(nodes, unfinished_tags, text), "parse")
    /\ text' = <<>>
    /\ pos' = pos + 1
    /\ UNCHANGED <<body, root_node, document, display_list, scroll, canvas, FONT_CACHE, loads,
                   scrolls, prev_display_list>>

ParseChar ==
    /\ pc = "parse"
    /\ pos <= Len(body)
    /\ body[pos] \notin {"<", ">"}
    /\ text' = Append(text, body[pos])
    /\ pos' = pos + 1
    /\ UNCHANGED <<body, in_tag, nodes, unfinished_tags, pc, root_node,
                   document, display_list, scroll, canvas, FONT_CACHE, loads,
                   scrolls, prev_display_list>>

\* After the scan: the trailing text, then the call of finish().
ParseTail ==
    /\ pc = "parse"
    /\ pos > Len(body)
    /\ ParserReturns(IF ~in_tag /\ text # <<>>
                     THEN AddText(nodes, unfinished_tags, text)
                     ELSE PState(nodes, unfinished_tags, FALSE), "finish")
    /\ UNCHANGED <<body, pos, text, in_tag, root_node, document,
                   display_list, scroll, canvas, FONT_CACHE, loads,
                   scrolls, prev_display_list>>

\* HTMLParser.finish, and the assignment of its result to Browser.root_node.
Finish ==
    /\ pc = "finish"
    /\ LET p == FinishLoop(nodes, unfinished_tags)
       IN IF p.unfinished_tags = <<>>
          THEN /\ pc' = "raised"            \* pop from empty list: IndexError
               /\ UNCHANGED <<nodes, unfinished_tags, root_node>>
          ELSE /\ nodes' = p.nodes
               /\ root_node' = Top(p.unfinished_tags)
               /\ unfinished_tags' = Pop(p.unfinished_tags)
               /\ pc' = "layout"
    /\ UNCHANGED <<body, pos, text, in_tag, document, display_list, scroll,
                   canvas, FONT_CACHE, loads, scrolls, prev_display_list>>

\* Browser.load: the document layout tree.
LayoutDocument ==
    /\ pc = "layout"
    /\ document' = DocumentLayout(nodes, root_node)
    /\ FONT_CACHE' = FONT_CACHE \cup FontsUsed(document')
    /\ pc' = "paint"
    /\ UNCHANGED <<body, pos, text, in_tag, nodes, unfinished_tags, root_node,
                   display_list, scroll, canvas, loads, scrolls,
                   prev_display_list>>

\* paint_tree appending to the display list the previous load left.
PaintDocumentAppending ==
    /\ pc = "paint"
    /\ display_list' = display_list \o PaintTree(document)
    /\ pc' = "draw"
    /\ UNCHANGED <<body, pos, text, in_tag, nodes, unfinished_tags, root_node,
                   document, scroll, canvas, FONT_CACHE, loads, scrolls,
                   prev_display_list>>

\* Browser.load: the display list, from an empty list and paint_tree.
PaintDocument ==
    /\ pc = "paint"
    /\ display_list' = PaintTree(document)
    /\ pc' = "draw"
    /\ UNCHANGED <<body, pos, text, in_tag, nodes, unfinished_tags, root_node,
                   document, scroll, canvas, FONT_CACHE, loads, scrolls,
                   prev_display_list>>

\* Browser.load: the first draw().
DrawLoaded ==
    /\ pc = "draw"
    /\ canvas' = canvas \o Draw(display_list, scroll)
    /\ pc' = "mainloop"
    /\ UNCHANGED <<body, pos, text, in_tag, nodes, unfinished_tags, root_node,
                   document, display_list, scroll, FONT_CACHE, loads, scrolls,
                   prev_display_list>>

\* scrolldown with the offset clamped to the end of the page.
ScrolldownClamped ==
    /\ pc = "mainloop"
    /\ scrolls < MaxScrolls
    /\ scrolls' = scrolls + 1
    /\ scroll' = IF 4 * (scroll + SCROLL_STEP + HEIGHT)
                        > document.y + document.height
                 THEN scroll
                 ELSE scroll + SCROLL_STEP
    /\ canvas' = Draw(display_list, scroll')
    /\ UNCHANGED <<body, pos, text, in_tag, nodes, unfinished_tags, pc,
                   root_node, document, display_list, FONT_CACHE, loads,
                   prev_display_list>>

\* Browser.scrolldown, the handler of <Down>.
Scrolldown ==
    /\ pc = "mainloop"
    /\ scrolls < MaxScrolls
    /\ scrolls' = scrolls + 1
    /\ scroll' = scroll + SCROLL_STEP
    /\ canvas' = Draw(display_list, scroll')
    /\ UNCHANGED <<body, pos, text, in_tag, nodes, unfinished_tags, pc,
                   root_node, document, display_list, FONT_CACHE, loads,
                   prev_display_list>>

\* Browser.load called again on the page already shown: a new HTMLParser on
\* the same markup.  The DOM and box tree of the previous load are replaced
\* when the new ones are assigned and are dropped here; the scroll offset,
\* the canvas and FONT_CACHE are what the previous load and the scroll events
\* left.
Reload ==
    /\ pc = "mainloop"
    /\ loads < MaxLoads
    /\ loads' = loads + 1
    /\ prev_display_list' = display_list
    /\ pos' = 1
    /\ text' = <<>>
    /\ in_tag' = FALSE
    /\ nodes' = <<>>
    /\ unfinished_tags' = <<>>
    /\ root_node' = None
    /\ document' = NoDocument
    /\ pc' = "parse"
    /\ UNCHANGED <<body, display_list, scroll, canvas, FONT_CACHE, scrolls>>

Next ==
    \/ ParseLt
    \/ ParseGt
    \/ ParseChar
    \/ ParseTail
    \/ Finish
    \/ LayoutDocument
    \/ PaintDocument
    \/ DrawLoaded
    \/ Scrolldown

\* The program as __main__ runs it: one load, then scroll events.
Spec == Init /\ [][Next]_vars

\* The browser with load called again on the page shown, for markups of at
\* most MaxReloadTok pieces and the scenarios.
ReloadBodies ==
    Scenarios \cup {Concat(ps) : ps \in SeqsUpTo(Pieces, MaxReloadTok)}

InitReload == Init /\ body \in ReloadBodies

NextReload == Next \/ Reload

SpecReload == InitReload /\ [][NextReload]_vars

(***************************************************************************)
(* Positions of the program.                                               *)
(***************************************************************************)
Parsed == pc \in {"layout", "paint", "draw", "mainloop"}
LaidOut == pc \in {"paint", "draw", "mainloop"}
Painted == pc \in {"draw", "mainloop"}

\* The box of the root node, once laid out.
RootBox == document.children[1]

\* Every box of the tree under (and including) box, in pre-order.
RECURSIVE Boxes(_)
Boxes(box) ==
    <<box>> \o Concat([i \in 1..Len(box.children) |-> Boxes(box.children[i])])

BlockLayouts ==
    LET bs == Boxes(document)
    IN {bs[i] : i \in {j \in 1..Len(bs) : bs[j].kind = "BlockLayout"}}

ModeOf(box) == GetLayoutMode(nodes, box.node)

(***************************************************************************)
(* C1: for every markup, parse() followed by finish() completes without    *)
(* raising and returns exactly one root node.                              *)
(***************************************************************************)
C1_ParseReturnsOneRoot ==
    /\ pc # "raised"
    /\ Parsed => /\ root_node \in 1..Len(nodes)
                 /\ nodes[root_node].parent = None
                 /\ unfinished_tags = <<>>

(***************************************************************************)
(* C2: on <b>Hi</b> there the display list holds exactly two fragments,    *)
(* "Hi" bold and "there" normal, on one line with one baseline, and the    *)
(* x of "there" is the x of "Hi" plus the width of "Hi" plus one space.    *)
(***************************************************************************)
C2_BoldThenNormal ==
    (body = BoldScenario /\ Painted) =>
        /\ Len(display_list) = 2
        /\ display_list[1].word = <<"H", "i">>
        /\ display_list[1].font.weight = "bold"
        /\ display_list[2].word = <<"t", "h", "e", "r", "e">>
        /\ display_list[2].font.weight = "normal"
        /\ display_list[1].y + 4 * Ascent(display_list[1].font)
               = display_list[2].y + 4 * Ascent(display_list[2].font)
        /\ display_list[2].x
               = display_list[1].x
                 + Measure(display_list[1].font, display_list[1].word)
                 + Measure(display_list[1].font, <<" ">>)

(***************************************************************************)
(* C3: on <p>One</p><p>Two</p> the root box is a block-mode box with two   *)
(* child boxes, one per paragraph, and the second child's y is the first   *)
(* child's y plus its height plus one VSTEP.                               *)
(***************************************************************************)
C3_ParagraphsStack ==
    (body = ParagraphsScenario /\ LaidOut) =>
        /\ ModeOf(RootBox) = "block"
        /\ Len(RootBox.children) = 2
        /\ \A i \in 1..Len(RootBox.children) :
               /\ nodes[RootBox.children[i].node].kind = "Element"
               /\ nodes[RootBox.children[i].node].tag = "p"
        /\ RootBox.children[2].y
               = RootBox.children[1].y + RootBox.children[1].height + 4 * VSTEP

(***************************************************************************)
(* C4: the tree builder returns the sole top-level element when there is   *)
(* exactly one, and for two top-level elements, the second opened after    *)
(* the first was closed, a synthesized root whose children are the two     *)
(* elements, as siblings in source order.                                  *)
(***************************************************************************)
SimpleElements ==
    { <<"<", "p", ">", "<", "/", "p", ">">>,
      <<"<", "p", ">", "O", "n", "e", "<", "/", "p", ">">>,
      <<"<", "p", ">", "T", "w", "o", "<", "/", "p", ">">> }

TwoTopLevel == {a \o b : a \in SimpleElements, b \in SimpleElements}

ElementNodes == {n \in 1..Len(nodes) : nodes[n].kind = "Element"}

C4_TopLevelSiblings ==
    Parsed =>
        /\ body \in SimpleElements =>
               /\ nodes[root_node].tag = "p"
               /\ ElementNodes = {root_node}
        /\ body \in TwoTopLevel =>
               /\ Len(nodes[root_node].children) = 2
               /\ \A i \in 1..2 :
                      LET c == nodes[root_node].children[i]
                      IN /\ nodes[c].kind = "Element"
                         /\ nodes[c].tag = "p"
                         /\ nodes[c].parent = root_node
                         /\ \A k \in 1..Len(nodes[c].children) :
                                nodes[nodes[c].children[k]].kind = "Text"
               /\ nodes[root_node].children[1] < nodes[root_node].children[2]

(***************************************************************************)
(* C5: a closing-tag event met while the open-element stack holds at most  *)
(* the root (the empty stack included) does not raise and leaves the       *)
(* stack, every child list and every parent reference unchanged.           *)
(***************************************************************************)
IsClosingTag(t) ==
    /\ ~GetAttributes(t).raised
    /\ StartsWith(GetAttributes(t).tag, "/")

StrayClose ==
    /\ pc = "parse"
    /\ pos <= Len(body)
    /\ body[pos] = ">"
    /\ IsClosingTag(text)
    /\ Len(unfinished_tags) <= 1

C5_StrayCloseDropped ==
    [][StrayClose => /\ pc' # "raised"
                     /\ unfinished_tags' = unfinished_tags
                     /\ nodes' = nodes]_vars

(***************************************************************************)
(* C6: at every step no element whose tag is in SELF_CLOSING_TAGS is on    *)
(* the open-element stack, and every such element has no children (so in   *)
(* the tree finish() returns as well).                                     *)
(***************************************************************************)
VoidNodes ==
    {n \in 1..Len(nodes) :
        nodes[n].kind = "Element" /\ nodes[n].tag \in SELF_CLOSING_TAGS}

C6_VoidNeverOpen ==
    /\ \A i \in 1..Len(unfinished_tags) : unfinished_tags[i] \notin VoidNodes
    /\ \A n \in VoidNodes : nodes[n].children = <<>>

\* A tree was returned in which text follows a void element under one parent.
C6_Witness ==
    /\ Parsed
    /\ \E n \in VoidNodes :
           \E m \in (n + 1)..Len(nodes) :
               /\ nodes[m].kind = "Text"
               /\ nodes[m].parent = nodes[n].parent

(***************************************************************************)
(* C7: the display list built by paint_tree holds each fragment emitted    *)
(* by an inline flush exactly once: it is the concatenation, in pre-order, *)
(* of the inline boxes' fragment lists.                                    *)
(***************************************************************************)
RECURSIVE InlineFragments(_)
InlineFragments(box) ==
    (IF box.kind = "BlockLayout" /\ ModeOf(box) = "inline"
     THEN box.display_list
     ELSE <<>>)
    \o Concat([i \in 1..Len(box.children) |->
                  InlineFragments(box.children[i])])

C7_EachFragmentOnce ==
    Painted => display_list = InlineFragments(document)

(***************************************************************************)
(* C8: all fragments emitted by one flush of a non-empty line have the     *)
(* same y + own ascent, namely box.y + cursor_y before the flush + 1.25    *)
(* times the largest ascent of the line.                                   *)
(***************************************************************************)
FlushRange(f) == f.first..(f.first + f.count - 1)

LineAscents(box, f) ==
    {Ascent(box.display_list[k].font) : k \in FlushRange(f)}

C8_SharedBaseline ==
    LaidOut =>
        \A box \in BlockLayouts :
            \A j \in 1..Len(box.flushes) :
                LET f == box.flushes[j]
                IN \A k \in FlushRange(f) :
                       box.display_list[k].y
                           + 4 * Ascent(box.display_list[k].font)
                         = box.y + f.cursor_y + 5 * Max(LineAscents(box, f))

\* A flushed line that holds fragments of two font sizes.
C8_Witness ==
    /\ LaidOut
    /\ \E box \in BlockLayouts :
           \E j \in 1..Len(box.flushes) :
               Cardinality(LineAscents(box, box.flushes[j])) >= 2

(***************************************************************************)
(* C9: in inline layout every fragment is one entire whitespace-delimited  *)
(* word of the text; a word is put at the start of a fresh line (instead   *)
(* of at the cursor) exactly when cursor_x plus its width exceeds the box  *)
(* width when it is placed; so a word that is not first on its line ends   *)
(* within the box width.                                                   *)
(***************************************************************************)
\* The whitespace-delimited words of the text under a node, in document order.
RECURSIVE WordsUnder(_)
WordsUnder(node) ==
    IF nodes[node].kind = "Text"
    THEN Split(nodes[node].text)
    ELSE Concat([i \in 1..Len(nodes[node].children) |->
                    WordsUnder(nodes[node].children[i])])

InlineBoxes == {box \in BlockLayouts : ModeOf(box) = "inline"}

C9_WrapAtWordBoundary ==
    LaidOut =>
        \A box \in InlineBoxes :
            /\ [k \in 1..Len(box.display_list) |-> box.display_list[k].word]
                   = WordsUnder(box.node)
            /\ Len(box.placed) = Len(box.display_list)
            /\ \A k \in 1..Len(box.placed) :
                   LET p == box.placed[k]
                       frag == box.display_list[k]
                       width == Measure(frag.font, frag.word)
                   IN /\ frag.x = box.x + p.x
                      /\ p.w = width
                      /\ (p.cursor_x + width > box.width) => p.x = 0
                      /\ (p.cursor_x + width <= box.width) => p.x = p.cursor_x
                      /\ p.x > 0 => p.x + width <= box.width

\* A word that did not fit behind the words of the pending line was wrapped,
\* in a box that also holds a word placed behind another.
C9_Witness ==
    /\ LaidOut
    /\ \E box \in InlineBoxes :
           /\ \E k \in 1..Len(box.placed) :
                  /\ box.placed[k].cursor_x > 0
                  /\ box.placed[k].cursor_x + box.placed[k].w > box.width
                  /\ box.placed[k].x = 0
           /\ \E k \in 1..Len(box.placed) : box.placed[k].x > 0

(***************************************************************************)
(* C10: after layout every block-mode box has height equal to the sum of   *)
(* the heights of its child boxes, and 0 when it has no children.          *)
(***************************************************************************)
RECURSIVE HeightsFrom(_, _)
HeightsFrom(children, i) ==
    IF i > Len(children)
    THEN 0
    ELSE children[i].height + HeightsFrom(children, i + 1)

BlockBoxes == {box \in BlockLayouts : ModeOf(box) = "block"}

C10_BlockHeightIsSum ==
    LaidOut =>
        \A box \in BlockBoxes :
            /\ box.height = HeightsFrom(box.children, 1)
            /\ box.children = <<>> => box.height = 0

\* A block-mode box with two children of non-zero height, a block-mode box
\* whose child is a block-mode box of non-zero height, and a block-mode box
\* without children.
C10_Witness ==
    /\ LaidOut
    /\ \E box \in BlockBoxes :
           Cardinality({i \in 1..Len(box.children) :
                           box.children[i].height > 0}) >= 2
    /\ \E box \in BlockBoxes :
           \E i \in 1..Len(box.children) :
               /\ box.children[i] \in BlockBoxes
               /\ box.children[i].height > 0
    /\ \E box \in BlockBoxes : box.children = <<>>

(***************************************************************************)
(* C11: the layout mode of a box is block if and only if its node is an    *)
(* Element that has a direct child Element with a block-level tag or has   *)
(* no children at all; it is inline for every Text and for every Element   *)
(* with children none of which is a block-level Element.  In               *)
(* <ul><li>x</li></ul> ul is block and li is inline.                       *)
(***************************************************************************)
BlockLevelChildren(n) ==
    {i \in 1..Len(nodes[n].children) :
        /\ nodes[nodes[n].children[i]].kind = "Element"
        /\ nodes[nodes[n].children[i]].tag \in BLOCK_ELEMENTS}

BoxesOfTag(tag) ==
    {box \in BlockLayouts :
        nodes[box.node].kind = "Element" /\ nodes[box.node].tag = tag}

C11_LayoutMode ==
    LaidOut =>
        /\ \A box \in BlockLayouts :
               /\ box.mode \in {"block", "inline"}
               /\ box.mode = "block" <=>
                      /\ nodes[box.node].kind = "Element"
                      /\ \/ BlockLevelChildren(box.node) # {}
                         \/ nodes[box.node].children = <<>>
               /\ nodes[box.node].kind = "Text" => box.mode = "inline"
               /\ ( /\ nodes[box.node].kind = "Element"
                    /\ nodes[box.node].children # <<>>
                    /\ BlockLevelChildren(box.node) = {} )
                      => box.mode = "inline"
        /\ body = ListScenario =>
               /\ \A box \in BoxesOfTag("ul") : box.mode = "block"
               /\ \A box \in BoxesOfTag("li") : box.mode = "inline"

\* The list of the scenario is laid out: a box for ul and a box for li.
C11_Witness ==
    /\ LaidOut
    /\ body = ListScenario
    /\ BoxesOfTag("ul") # {}
    /\ BoxesOfTag("li") # {}

(***************************************************************************)
(* C12: with scroll offset 0 the projection performed by draw emits        *)
(* exactly the fragments of the display list whose page y lies in          *)
(* [0, HEIGHT], in their original order and with unchanged x and y, and no *)
(* fragment with y outside [0, HEIGHT].                                    *)
(***************************************************************************)
InViewport(f) == 0 <= f.y /\ f.y <= 4 * HEIGHT

\* The canvas item of a fragment drawn at its page coordinates.
Unmoved(f) == [x |-> f.x, y |-> f.y, text |-> f.word, font |-> f.font]

FirstDraw == pc = "mainloop" /\ loads = 1 /\ scrolls = 0

Projection(dl, offset) ==
    LET Visible(f) == /\ 4 * (offset - VSTEP) <= f.y
                      /\ f.y <= 4 * (offset + HEIGHT)
        visible == SelectSeq(dl, Visible)
    IN [k \in 1..Len(visible) |->
           [x |-> visible[k].x, y |-> visible[k].y - 4 * offset,
            text |-> visible[k].word, font |-> visible[k].font]]

C13_SurfaceIsProjection ==
    pc = "mainloop" => canvas = Projection(display_list, scroll)

(***************************************************************************)
(* C14: whenever the parser returns, the result is a tree: the root has    *)
(* parent None and is in no child list, every other node occurs exactly    *)
(* once in exactly one element's child list, its parent reference is that  *)
(* element, and following parent references from any node ends at the      *)
(* root (no cycle, no shared node, no node left out).                      *)
(***************************************************************************)
\* The places (element, index) of the child lists that hold node n.
Occurrences(n) ==
    {<<m, i>> \in (1..Len(nodes)) \X (1..Len(nodes)) :
        i <= Len(nodes[m].children) /\ nodes[m].children[i] = n}

\* Following parent references from n for at most k steps reaches the root.
RECURSIVE ReachesRoot(_, _)
ReachesRoot(n, k) ==
    IF n = root_node
    THEN TRUE
    ELSE IF k = 0 \/ nodes[n].parent = None
         THEN FALSE
         ELSE ReachesRoot(nodes[n].parent, k - 1)

C14_ResultIsTree ==
    Parsed =>
        /\ nodes[root_node].parent = None
        /\ Occurrences(root_node) = {}
        /\ \A n \in (1..Len(nodes)) \ {root_node} :
               /\ Cardinality(Occurrences(n)) = 1
               /\ \A o \in Occurrences(n) :
                      /\ nodes[n].parent = o[1]
                      /\ nodes[o[1]].kind = "Element"
               /\ ReachesRoot(n, Len(nodes))
        /\ \A n \in 1..Len(nodes) :
               nodes[n].kind = "Text" => nodes[n].children = <<>>

\* A returned tree in which a text lies under three nested elements.
C14_Witness ==
    /\ Parsed
    /\ \E n \in 1..Len(nodes) :
           /\ nodes[n].kind = "Text"
           /\ nodes[n].parent # None
           /\ nodes[nodes[n].parent].parent # None
           /\ nodes[nodes[nodes[n].parent].parent].parent # None

C16_StyleRestored ==
    LaidOut =>
        \A box \in InlineBoxes :
            \A k \in 1..Len(box.styled) :
                box.styled[k].after = box.styled[k].before

(***************************************************************************)
(* C17: get_attributes maps each token after the tag name that contains =  *)
(* to (case-folded text before the first =) -> (text after it, with one    *)
(* surrounding pair of single or double quotes removed when present and    *)
(* otherwise unchanged), and each token without = to the empty string;     *)
(* the empty quoted value k="" gives the empty string and a value that     *)
(* starts with a quote but does not end with one is unchanged.             *)
(***************************************************************************)
Quotes == {"'", "\""}

\* A value without its one surrounding pair of quotes, when it has one.
Unquoted(value) ==
    IF Len(value) >= 2 /\ value[1] \in Quotes /\ value[Len(value)] = value[1]
    THEN SubSeq(value, 2, Len(value) - 1)
    ELSE value

ClaimedPair(token) ==
    LET eq == IndexOf(token, "=")
    IN IF eq > 0
       THEN <<Str(Casefold(SubSeq(token, 1, eq - 1))),
              Str(Unquoted(SubSeq(token, eq + 1, Len(token))))>>
       ELSE <<Str(Casefold(token)), "">>

\* The claimed dict of a tag interior t: for each key, its last token.
ClaimedAttributes(t) ==
    LET tokens == Tail(Split(t))
        keys == {ClaimedPair(tokens[i])[1] : i \in 1..Len(tokens)}
        Last(k) == Max({i \in 1..Len(tokens) : ClaimedPair(tokens[i])[1] = k})
    IN [k \in keys |-> ClaimedPair(tokens[Last(k)])[2]]

\* The scan is at the > of a tag that the parser makes an element of.
ElementTagEnds ==
    /\ pc = "parse"
    /\ pos <= Len(body)
    /\ body[pos] = ">"
    /\ Len(nodes') = Len(nodes) + 1

C17_AttributesUnquoted ==
    [][ElementTagEnds =>
           nodes'[Len(nodes')].attributes = ClaimedAttributes(text)]_vars

(***************************************************************************)
(* C18: after layout, in every block-mode box the first child box's y is   *)
(* the parent's y and each later child's y is its previous sibling's y     *)
(* plus that sibling's height, so the children tile the parent's vertical  *)
(* extent [y, y + height] without gap or overlap; every box's x and width  *)
(* equal its parent's.                                                     *)
(***************************************************************************)
AllBoxes == LET bs == Boxes(document) IN {bs[i] : i \in 1..Len(bs)}

C18_ChildrenTileParent ==
    LaidOut =>
        /\ \A box \in BlockLayouts :
               box.mode = "block" =>
                   LET n == Len(box.children)
                   IN /\ n > 0 => box.children[1].y = box.y
                      /\ \A i \in 2..n :
                             box.children[i].y
                                 = box.children[i - 1].y
                                   + box.children[i - 1].height
                      /\ \A i \in 1..n : box.children[i].height >= 0
                      /\ n > 0 => box.children[n].y + box.children[n].height
                                      = box.y + box.height
        /\ \A box \in AllBoxes :
               \A i \in 1..Len(box.children) :
                   /\ box.children[i].x = box.x
                   /\ box.children[i].width = box.width

\* A block-mode box whose second child lies below a first child of non-zero
\* height and is itself a block-mode box with a child.
C18_Witness ==
    /\ LaidOut
    /\ \E box \in BlockLayouts :
           /\ box.mode = "block"
           /\ Len(box.children) >= 2
           /\ box.children[1].height > 0
           /\ box.children[2].mode = "block"
           /\ box.children[2].children # <<>>

(***************************************************************************)
(* C19: each scroll event adds exactly SCROLL_STEP to the scroll offset,   *)
(* without a clamp against the content height, and leaves the DOM, the box *)
(* tree and the display list unchanged; after n scroll events following    *)
(* the load the offset is n * SCROLL_STEP and the items drawn are exactly  *)
(* the fragments with offset - VSTEP <= y <= offset + HEIGHT, in order,    *)
(* each at screen y = y - offset.                                          *)
(***************************************************************************)
\* The fragments the claim says are drawn, as the indices of the display list.
DrawnIndices ==
    {i \in 1..Len(display_list) :
        /\ display_list[i].y >= 4 * (scroll - VSTEP)
        /\ display_list[i].y <= 4 * (scroll + HEIGHT)}

\* The k-th smallest element of a set of indices.
RECURSIVE Nth(_, _)
Nth(S, k) ==
    LET least == CHOOSE i \in S : \A j \in S : i <= j
    IN IF k = 1 THEN least ELSE Nth(S \ {least}, k - 1)

AfterScrolls ==
    (pc = "mainloop" /\ loads = 1) =>
        /\ scroll = scrolls * SCROLL_STEP
        /\ scrolls >= 1 =>
               /\ Len(canvas) = Cardinality(DrawnIndices)
               /\ \A k \in 1..Len(canvas) :
                      LET f == display_list[Nth(DrawnIndices, k)]
                      IN /\ canvas[k].y = f.y - 4 * scroll
                         /\ canvas[k].x = f.x
                         /\ canvas[k].text = f.word
                         /\ canvas[k].font = f.font

ScrollStep ==
    scrolls' # scrolls =>
        /\ scroll' = scroll + SCROLL_STEP
        /\ UNCHANGED <<nodes, root_node, document, display_list>>

C19_ScrollUnclamped == []AfterScrolls /\ [][ScrollStep]_vars

\* After a scroll event a page taller than the viewport is shown with its top
\* lines culled, the viewport reaching below the end of the page.
C19_Witness ==
    /\ pc = "mainloop"
    /\ scrolls >= 1
    /\ canvas # <<>>
    /\ \E i \in 1..Len(display_list) : i \notin DrawnIndices
    /\ 4 * (scroll + HEIGHT) > document.y + document.height
    /\ document.height > 4 * HEIGHT

(***************************************************************************)
(* C20: whenever the parser returns, every element's child list is in      *)
(* document order: of two children of one element, the one whose text or   *)
(* opening tag comes earlier in the markup is earlier in the list, though  *)
(* text and void elements are appended when met and other elements only    *)
(* when closed or auto-closed by finish().  A node's identity is its rank  *)
(* in the order in which texts and opening tags are met by the scan.       *)
(***************************************************************************)
C20_ChildrenInDocumentOrder ==
    Parsed =>
        \A n \in 1..Len(nodes) :
            \A i \in 1..Len(nodes[n].children) :
                \A j \in (i + 1)..Len(nodes[n].children) :
                    nodes[n].children[i] < nodes[n].children[j]

\* A returned element that holds a text, a void element, an element closed
\* by its closing tag with a child of its own, and a child behind that one.
C20_Witness ==
    /\ Parsed
    /\ \E n \in 1..Len(nodes) :
           LET kids == nodes[n].children
           IN /\ \E i \in 1..Len(kids) : nodes[kids[i]].kind = "Text"
              /\ \E i \in 1..Len(kids) : kids[i] \in VoidNodes
              /\ \E i \in 1..Len(kids) :
                     /\ nodes[kids[i]].kind = "Element"
                     /\ nodes[kids[i]].children # <<>>
                     /\ i < Len(kids)

====
